---- MODULE Spec2Model ----
(***************************************************************************)
(* Model of the hyperparameter-tuning controller                           *)
(* (icu_benchmarks/hyperparameter_tuning.py) and of the windowed dataset   *)
(* (icu_benchmarks/data/loader.py).                                        *)
(*                                                                         *)
(* Three specifications share the variables:                               *)
(*   SpecCollect  the collection loop of choose_and_bind_hyperparameters   *)
(*                (one hyperparameters_to_tune call per scope) over a wide *)
(*                set of configurations and candidate sets;                *)
(*   Spec         one whole call of choose_and_bind_hyperparameters;       *)
(*   SpecData     a RICUDataset split and its accessors.                   *)
(***************************************************************************)
EXTENDS Integers, Sequences, FiniteSets, TLC

VARIABLES
    pc,                 \* position in choose_and_bind_hyperparameters / dataset
    scopes,             \* argument scopes: per scope the class and the candidates
    scope_i,            \* number of scopes already collected (loop of line 111)
    gin,                \* the gin configuration store: key -> value
    call,               \* the last hyperparameters_to_tune call (arguments, result)
    fixed,              \* names bound as fixed values by line 40 so far
    hyperparams,        \* ordered dict name -> bounds (line 109..113)
    do_tune, debug,     \* arguments
    checkpoint,         \* "none" | "missing" | "exists": argument and file state
    n_calls_arg,        \* argument n_calls as passed
    n_calls,            \* local n_calls (reduced at line 131, reset at line 174)
    n_initial_points,   \* local n_initial_points (reset at line 173)
    x0, y0,             \* restored history (line 129, 130); <<>> when None
    restored,           \* TRUE once lines 127..132 have loaded a checkpoint
    res,                \* the optimizer's result: x_iters, func_vals
    remaining,          \* iterations left in the optimizer's loop
    next_x,             \* the point asked for and under evaluation
    log_file,           \* log_dir / hyperparameter_tuning_logs.json
    evals,              \* objective evaluations started so far
    fold_calls,         \* preprocess_and_train_for_folds invocations so far
    fold_in_temp,       \* for each fold invocation: did temp_dir exist
    temp_dir,           \* "none" | "exists" | "removed"
    logging_disabled,   \* logging.disable(level=INFO) in force
    err,                \* "" or the exception that left the controller
    self,               \* the RICUDataset object (its fields)
    returned            \* the last call on the dataset: operation, idx, value

vars == <<pc, scopes, scope_i, gin, call, fixed, hyperparams, do_tune, debug,
          checkpoint, n_calls_arg, n_calls, n_initial_points, x0, y0, restored,
          res, remaining, next_x, log_file, evals, fold_calls, fold_in_temp,
          temp_dir, logging_disabled, err, self, returned>>

(***************************************************************************)
(* Bounds of the model.                                                    *)
(***************************************************************************)
MaxScopes == 2      \* scopes per call
MaxCalls == 3       \* largest n_calls argument
MaxInit == 2        \* largest n_initial_points argument
MaxPoints == 3      \* most points a checkpoint holds
MaxStays == 2       \* most stays of a split
MaxSteps == 3       \* most timesteps of a stay

(***************************************************************************)
(* Values of candidates and of gin bindings.  A value carries its Python   *)
(* form: a scalar, a tuple or a list.                                      *)
(***************************************************************************)
Scalar(n) == [form |-> "scalar", v |-> <<n>>]
TupleV(s) == [form |-> "tuple", v |-> s]
ListV(s) == [form |-> "list", v |-> s]
Unbound == [form |-> "none", v |-> <<>>]

\* isinstance(values, (list, tuple)), line 38
IsListOrTuple(values) == values.form \in {"list", "tuple"}

(***************************************************************************)
(* Names.  A name is a sequence of text pieces; "ConvNet" is the two       *)
(* pieces "Conv", "Net", so that the text of ConvNet.a ends with the text  *)
(* of Net.a.                                                               *)
(***************************************************************************)
Net == <<"Net">>
ConvNet == <<"Conv", "Net">>
Classes == {Net, ConvNet}
Params == <<"a", "b">>

\* name = f"{class_to_tune.__name__}.{param}", line 34
QualifiedName(class_to_tune, param) == class_to_tune \o <<".", param>>

\* the keys of the configuration store
Keys == {QualifiedName(c, Params[j]) : c \in Classes, j \in 1..Len(Params)}

\* the order in which gin.config_str() lists the bindings
KeyOrder ==
    << QualifiedName(ConvNet, "a"), QualifiedName(ConvNet, "b"),
       QualifiedName(Net, "a"), QualifiedName(Net, "b") >>

(***************************************************************************)
(* gin.config_str(): one line "key = value" per binding.                   *)
(***************************************************************************)
RECURSIVE JoinItems(_, _)
JoinItems(s, j) ==
    IF j > Len(s) THEN <<>>
    ELSE (IF j > 1 THEN <<",", " ">> ELSE <<>>) \o <<ToString(s[j])>> \o JoinItems(s, j + 1)

FormatValue(value) ==
    CASE value.form = "scalar" -> <<ToString(value.v[1])>>
      [] value.form = "tuple" -> <<"(">> \o JoinItems(value.v, 1) \o <<")">>
      [] value.form = "list" -> <<"[">> \o JoinItems(value.v, 1) \o <<"]">>
      [] OTHER -> <<>>

FormatBinding(key, value) == key \o <<" ", "=", " ">> \o FormatValue(value) \o <<"\n">>

RECURSIVE ConfigStrFrom(_, _)
ConfigStrFrom(config, j) ==
    IF j > Len(KeyOrder) THEN <<>>
    ELSE (IF config[KeyOrder[j]] = Unbound THEN <<>>
          ELSE FormatBinding(KeyOrder[j], config[KeyOrder[j]]))
         \o ConfigStrFrom(config, j + 1)

config_str(config) == ConfigStrFrom(config, 1)

\* str.replace(" ", "")
RECURSIVE RemoveSpaces(_)
RemoveSpaces(text) ==
    IF text = <<>> THEN <<>>
    ELSE (IF Head(text) = " " THEN <<>> ELSE <<Head(text)>>) \o RemoveSpaces(Tail(text))

\* the Python test  sub in text  on strings
Contains(text, sub) ==
    \E j \in 1..(Len(text) - Len(sub) + 1) : SubSeq(text, j, j + Len(sub) - 1) = sub

\* line 35: f"{name}=" in gin.config_str().replace(" ", "")
AlreadyInConfig(name, config) ==
    Contains(RemoveSpaces(config_str(config)), name \o <<"=">>)

\* gin.bind_parameter(name, value)
bind_parameter(config, name, value) == [config EXCEPT ![name] = value]

(***************************************************************************)
(* An ordered dict as a sequence of [name, values] entries.                *)
(***************************************************************************)
DictKeys(d) == {d[j].name : j \in 1..Len(d)}
DictGet(d, name) == (CHOOSE j \in 1..Len(d) : d[j].name = name)
DictSet(d, name, values) ==
    IF name \in DictKeys(d)
    THEN [d EXCEPT ![DictGet(d, name)] = [name |-> name, values |-> values]]
    ELSE Append(d, [name |-> name, values |-> values])

\* a variant that keeps the entry a name already has
DictUpdate_keep(d, other) == d \o SelectSeq(other, LAMBDA e : e.name \notin DictKeys(d))

\* dict.update(other), line 113
RECURSIVE DictUpdate(_, _)
DictUpdate(d, other) ==
    IF other = <<>> THEN d
    ELSE DictUpdate(DictSet(d, Head(other).name, Head(other).values), Tail(other))

(***************************************************************************)
(* hyperparameters_to_tune, lines 32..43: the loop over the candidates,    *)
(* from candidate j on, with the store and the result built so far.        *)
(***************************************************************************)
RECURSIVE hyperparameters_to_tune_from(_, _, _, _, _, _)
hyperparameters_to_tune_from(class_to_tune, cands, j, config, out, bound) ==
    IF j > Len(cands) THEN [gin |-> config, ret |-> out, bound |-> bound]
    ELSE
        LET name == QualifiedName(class_to_tune, cands[j].param)
            values == cands[j].values
        IN  IF AlreadyInConfig(name, config)
            THEN hyperparameters_to_tune_from(class_to_tune, cands, j + 1, config, out, bound)
            ELSE IF ~IsListOrTuple(values)
            THEN hyperparameters_to_tune_from(class_to_tune, cands, j + 1,
                     bind_parameter(config, name, values), out, bound \cup {name})
            ELSE hyperparameters_to_tune_from(class_to_tune, cands, j + 1, config,
                     DictSet(out, name, values), bound)

hyperparameters_to_tune(class_to_tune, cands, config) ==
    hyperparameters_to_tune_from(class_to_tune, cands, 1, config, <<>>, {})

(***************************************************************************)
(* bind_params, lines 53..55: zip stops at the shorter of the two lists.   *)
(***************************************************************************)
Min(a, b) == IF a < b THEN a ELSE b

RECURSIVE bind_params_from(_, _, _, _)
bind_params_from(config, hyperparams_names, hyperparams_values, j) ==
    IF j > Min(Len(hyperparams_names), Len(hyperparams_values)) THEN config
    ELSE bind_params_from(
             bind_parameter(config, hyperparams_names[j], Scalar(hyperparams_values[j])),
             hyperparams_names, hyperparams_values, j + 1)

bind_params(config, hyperparams_names, hyperparams_values) ==
    bind_params_from(config, hyperparams_names, hyperparams_values, 1)

\* lines 114, 115
hyperparams_names == [j \in 1..Len(hyperparams) |-> hyperparams[j].name]
hyperparams_bounds == [j \in 1..Len(hyperparams) |-> hyperparams[j].values]

\* a variant that takes the last recorded point
argmin_last(ys) == Len(ys)

\* np.argmin: the first index of the smallest value
argmin(ys) ==
    CHOOSE j \in 1..Len(ys) :
        /\ \A m \in 1..Len(ys) : ys[j] <= ys[m]
        /\ \A m \in 1..(j - 1) : ys[m] > ys[j]

(***************************************************************************)
(* The search space the optimizer draws from: a tuple (lo, hi) is the      *)
(* integer range lo..hi, a list is the set of its items.                   *)
(***************************************************************************)
DimensionValues(values) ==
    IF values.form = "tuple" THEN (values.v[1])..(values.v[2])
    ELSE {values.v[j] : j \in 1..Len(values.v)}

SpacePoints(bounds) ==
    {x \in [1..Len(bounds) -> UNION {DimensionValues(bounds[j]) : j \in 1..Len(bounds)}] :
        \A j \in 1..Len(bounds) : x[j] \in DimensionValues(bounds[j])}

\* the losses preprocess_and_train_for_folds returns
Losses == {0, 1}

NoFile == [exists |-> FALSE, x_iters |-> <<>>, func_vals |-> <<>>]
NoCall == [class_to_tune |-> <<>>, hyperparams |-> <<>>, before |-> <<>>, ret |-> <<>>]
NoDataset == <<>>
NoResult == [op |-> "none"]

(***************************************************************************)
(* Inputs.                                                                 *)
(***************************************************************************)
Cand(param, values) == [param |-> param, values |-> values]

\* candidate dicts of SpecCollect: each parameter absent or in one of the forms
CandidateForms == {Scalar(5), TupleV(<<0, 1>>), ListV(<<0, 1>>)}
CandidateDicts ==
    {<<>>}
    \cup {<<Cand("a", v)>> : v \in CandidateForms}
    \cup {<<Cand("b", TupleV(<<0, 1>>))>>}
    \cup {<<Cand("a", v), Cand("b", TupleV(<<0, 1>>))>> : v \in CandidateForms}

ScopeConfigs == [class_to_tune : Classes, hyperparams : CandidateDicts]

SeqsUpTo(S, n) == UNION {[1..m -> S] : m \in 0..n}

\* configurations the call may start from: any of these keys bound beforehand
PreBoundKeys ==
    {QualifiedName(Net, "a"), QualifiedName(ConvNet, "a"), QualifiedName(Net, "b")}
Configs ==
    {[k \in Keys |-> IF k \in B THEN Scalar(7) ELSE Unbound] : B \in SUBSET PreBoundKeys}

\* scopes and configurations of Spec
TuneDicts ==
    { <<>>,
      <<Cand("a", TupleV(<<0, 1>>))>>,
      <<Cand("a", Scalar(5)), Cand("b", ListV(<<2>>))>> }
TuneScopeConfigs == [class_to_tune : {Net}, hyperparams : TuneDicts]
TuneConfigs ==
    {[k \in Keys |-> IF k \in B THEN Scalar(7) ELSE Unbound] :
        B \in {{}, {QualifiedName(Net, "a")}}}

InitCommon ==
    /\ pc = "collect"
    /\ scope_i = 0
    /\ call = NoCall
    /\ fixed = {}
    /\ hyperparams = <<>>
    /\ n_calls = n_calls_arg
    /\ x0 = <<>>
    /\ y0 = <<>>
    /\ restored = FALSE
    /\ res = [x_iters |-> <<>>, func_vals |-> <<>>]
    /\ remaining = 0
    /\ next_x = <<>>
    /\ log_file = NoFile
    /\ evals = 0
    /\ fold_calls = 0
    /\ fold_in_temp = <<>>
    /\ temp_dir = "none"
    /\ logging_disabled = FALSE
    /\ err = ""
    /\ self = NoDataset
    /\ returned = NoResult

Init ==
    /\ scopes \in SeqsUpTo(TuneScopeConfigs, MaxScopes)
    /\ gin \in TuneConfigs
    /\ do_tune \in BOOLEAN
    /\ debug \in BOOLEAN
    /\ checkpoint \in {"none", "missing", "exists"}
    /\ n_calls_arg \in 1..MaxCalls
    /\ n_initial_points \in 0..MaxInit
    /\ InitCommon

InitCollect ==
    /\ scopes \in SeqsUpTo(ScopeConfigs, MaxScopes)
    /\ gin \in Configs
    /\ do_tune = TRUE
    /\ debug = FALSE
    /\ checkpoint = "none"
    /\ n_calls_arg = 1
    /\ n_initial_points = 1
    /\ InitCommon

(***************************************************************************)
(* choose_and_bind_hyperparameters.                                        *)
(***************************************************************************)
ctl_vars == <<do_tune, debug, checkpoint, n_calls_arg, scopes, self, returned>>

\* lines 111..113: one iteration of the loop over the scopes
CollectScope ==
    /\ pc = "collect"
    /\ scope_i < Len(scopes)
    /\ LET sc == scopes[scope_i + 1]
           r == hyperparameters_to_tune(sc.class_to_tune, sc.hyperparams, gin)
       IN  /\ gin' = r.gin
           /\ hyperparams' = DictUpdate(hyperparams, r.ret)
           /\ fixed' = fixed \cup r.bound
           /\ call' = [class_to_tune |-> sc.class_to_tune, hyperparams |-> sc.hyperparams,
                       before |-> gin, ret |-> r.ret]
    /\ scope_i' = scope_i + 1
    /\ UNCHANGED <<pc, n_calls, n_initial_points, x0, y0, restored, res, remaining,
                   next_x, log_file, evals, fold_calls, fold_in_temp, temp_dir,
                   logging_disabled, err>>
    /\ UNCHANGED ctl_vars

\* lines 114..119: the early return
SkipTuning(tune, bounds) == tune /\ bounds = <<>>

CheckEmpty ==
    /\ pc = "collect"
    /\ scope_i = Len(scopes)
    /\ pc' = IF SkipTuning(do_tune, hyperparams_bounds) THEN "done" ELSE "checkpoint"
    /\ UNCHANGED <<scope_i, gin, call, fixed, hyperparams, n_calls, n_initial_points,
                   x0, y0, restored, res, remaining, next_x, log_file, evals,
                   fold_calls, fold_in_temp, temp_dir, logging_disabled, err>>
    /\ UNCHANGED ctl_vars

\* the histories a checkpoint file of this search space can hold: the callback
\* writes it only once a point is recorded, so it holds at least one point
CheckpointContents ==
    UNION {[x_iters : [1..k -> SpacePoints(hyperparams_bounds)], func_vals : [1..k -> Losses]] :
              k \in 1..MaxPoints}

\* a variant without the existence test
path_exists_always(path) == TRUE

\* line 125: checkpoint_path.exists()
path_exists(path) == path = "exists"

\* line 133: the budget left after a resume is used up
BudgetExhausted(n) == n <= 0

\* lines 121..137: the checkpoint step
LoadCheckpoint ==
    /\ pc = "checkpoint"
    /\ \/ /\ checkpoint = "none"
          /\ pc' = "tempdir"
          /\ UNCHANGED <<gin, n_calls, x0, y0, restored, err>>
       \/ /\ checkpoint # "none"
          /\ ~path_exists(checkpoint)
          /\ pc' = "raised"
          /\ err' = "NoCheckpoint"    \* ValueError, line 126
          /\ UNCHANGED <<gin, n_calls, x0, y0, restored>>
       \/ /\ checkpoint # "none"
          /\ path_exists(checkpoint)
          /\ \E content \in CheckpointContents :
                /\ x0' = content.x_iters
                /\ y0' = content.func_vals
                /\ restored' = TRUE
                /\ n_calls' = n_calls - Len(content.x_iters)
                /\ IF BudgetExhausted(n_calls')
                   THEN /\ gin' = bind_params(gin, hyperparams_names,
                                              content.x_iters[argmin(content.func_vals)])
                        /\ pc' = "done"
                   ELSE /\ gin' = gin
                        /\ pc' = "tempdir"
          /\ UNCHANGED err
    /\ UNCHANGED <<scope_i, call, fixed, hyperparams, n_initial_points, res, remaining,
                   next_x, log_file, evals, fold_calls, fold_in_temp, temp_dir,
                   logging_disabled>>
    /\ UNCHANGED ctl_vars

\* line 139: the temporary directory is created on entering the with block
EnterTempDir ==
    /\ pc = "tempdir"
    /\ temp_dir' = "exists"
    /\ pc' = "define"
    /\ UNCHANGED <<scope_i, gin, call, fixed, hyperparams, n_calls, n_initial_points,
                   x0, y0, restored, res, remaining, next_x, log_file, evals,
                   fold_calls, fold_in_temp, logging_disabled, err>>
    /\ UNCHANGED ctl_vars

\* lines 141..153: the with block only defines the objective; leaving the
\* block removes the directory
LeaveTempDir ==
    /\ pc = "define"
    /\ temp_dir' = "removed"
    /\ pc' = "setup"
    /\ UNCHANGED <<scope_i, gin, call, fixed, hyperparams, n_calls, n_initial_points,
                   x0, y0, restored, res, remaining, next_x, log_file, evals,
                   fold_calls, fold_in_temp, logging_disabled, err>>
    /\ UNCHANGED ctl_vars

\* a variant that keeps the budget that was passed
SearchBudget_passed(tune, passed) == passed

\* lines 167..174: without tuning n_initial_points and n_calls are set to 1
SearchBudget(tune, passed) == IF tune THEN passed ELSE 1

\* lines 167..176
Setup ==
    /\ pc = "setup"
    /\ n_initial_points' = SearchBudget(do_tune, n_initial_points)
    /\ n_calls' = SearchBudget(do_tune, n_calls)
    /\ logging_disabled' = IF ~debug THEN TRUE ELSE logging_disabled
    /\ pc' = "minimize"
    /\ UNCHANGED <<scope_i, gin, call, fixed, hyperparams, x0, y0, restored, res,
                   remaining, next_x, log_file, evals, fold_calls, fold_in_temp,
                   temp_dir, err>>
    /\ UNCHANGED ctl_vars

\* a variant that writes the last evaluation only
tune_step_callback_last_only(result) ==
    [exists |-> TRUE,
     x_iters |-> SubSeq(result.x_iters, Len(result.x_iters), Len(result.x_iters)),
     func_vals |-> SubSeq(result.func_vals, Len(result.func_vals), Len(result.func_vals))]

\* tune_step_callback, lines 156..162: the file is opened with "w" and the whole
\* history of the result is written
tune_step_callback(result) ==
    [exists |-> TRUE, x_iters |-> result.x_iters, func_vals |-> result.func_vals]

\* a variant without a callback
Callback_never(tune, file, result) == file

\* callback=tune_step_callback if do_tune else None, line 187
Callback(tune, file, result) == IF tune THEN tune_step_callback(result) ELSE file

\* The argument check gp_minimize (scikit-optimize, base_minimize) makes before
\* it evaluates anything: without x0 it needs n_initial_points > 0, and with y0
\* given (or without x0) it needs n_calls >= n_initial_points; else ValueError.
MinimizeRejects(calls, initial_points, has_x0) ==
    \/ initial_points <= 0 /\ ~has_x0
    \/ calls < initial_points

\* lines 178..188, entry of gp_minimize: the arguments are checked, the restored
\* points are told to the optimizer and the callback is called on them
MinimizeStart ==
    /\ pc = "minimize"
    /\ \/ /\ MinimizeRejects(n_calls, n_initial_points, restored)
          /\ pc' = "raised"
          /\ err' = "MinimizeArguments"
          /\ UNCHANGED <<res, remaining, log_file>>
       \/ /\ hyperparams = <<>>
          \* a search space without dimensions: what the optimizer does with it
          \* is not fixed by this code
          /\ pc' = "raised"
          /\ err' = "EmptySpace"
          /\ UNCHANGED <<res, remaining, log_file>>
       \/ /\ ~MinimizeRejects(n_calls, n_initial_points, restored)
          /\ res' = [x_iters |-> x0, func_vals |-> y0]
          /\ log_file' = IF restored THEN Callback(do_tune, log_file, res') ELSE log_file
          /\ remaining' = n_calls
          /\ pc' = "ask"
          /\ UNCHANGED err
    /\ UNCHANGED <<scope_i, gin, call, fixed, hyperparams, n_calls, n_initial_points,
                   x0, y0, restored, next_x, evals, fold_calls, fold_in_temp, temp_dir,
                   logging_disabled>>
    /\ UNCHANGED ctl_vars

\* one iteration of the optimizer's loop: ask, bind_params_and_train
\* (lines 141..153), tell, tune_step_callback
Evaluate ==
    /\ pc = "ask"
    /\ remaining > 0
    /\ \E x \in SpacePoints(hyperparams_bounds) :
          /\ next_x' = x
          /\ gin' = bind_params(gin, hyperparams_names, x)
          /\ evals' = evals + 1
          /\ IF ~do_tune
             THEN \* line 144: return 0
                  /\ res' = [x_iters |-> Append(res.x_iters, x),
                             func_vals |-> Append(res.func_vals, 0)]
                  /\ log_file' = Callback(do_tune, log_file, res')
                  /\ remaining' = remaining - 1
                  /\ UNCHANGED <<pc, err, fold_calls, fold_in_temp>>
             ELSE /\ fold_calls' = fold_calls + 1
                  /\ fold_in_temp' = Append(fold_in_temp, temp_dir = "exists")
                  /\ \/ \E loss \in Losses :
                           /\ res' = [x_iters |-> Append(res.x_iters, x),
                                      func_vals |-> Append(res.func_vals, loss)]
                           /\ log_file' = Callback(do_tune, log_file, res')
                           /\ remaining' = remaining - 1
                           /\ UNCHANGED <<pc, err>>
                     \/ \* preprocess_and_train_for_folds raises
                        /\ pc' = "raised"
                        /\ err' = "TrainingError"
                        /\ UNCHANGED <<res, log_file, remaining>>
    /\ UNCHANGED <<scope_i, call, fixed, hyperparams, n_calls, n_initial_points,
                   x0, y0, restored, temp_dir, logging_disabled>>
    /\ UNCHANGED ctl_vars

\* a variant that takes the point evaluated last
BestPoint_last(result) == result.x_iters[Len(result.x_iters)]

\* res.x: the point of the smallest recorded value
BestPoint(result) == result.x_iters[argmin(result.func_vals)]

\* lines 189..195: the optimizer has returned
Finish ==
    /\ pc = "ask"
    /\ remaining = 0
    /\ logging_disabled' = FALSE
    /\ gin' = bind_params(gin, hyperparams_names, BestPoint(res))
    /\ pc' = "done"
    /\ UNCHANGED <<scope_i, call, fixed, hyperparams, n_calls, n_initial_points,
                   x0, y0, restored, res, remaining, next_x, log_file, evals,
                   fold_calls, fold_in_temp, temp_dir, err>>
    /\ UNCHANGED ctl_vars

Next ==
    \/ CollectScope
    \/ CheckEmpty
    \/ LoadCheckpoint
    \/ EnterTempDir
    \/ LeaveTempDir
    \/ Setup
    \/ MinimizeStart
    \/ Evaluate
    \/ Finish

Spec == Init /\ [][Next]_vars

NextCollect == CollectScope

SpecCollect == InitCollect /\ [][NextCollect]_vars

(***************************************************************************)
(* RICUDataset (icu_benchmarks/data/loader.py).                            *)
(*                                                                         *)
(* A table is a sequence of rows.  The stays of a split are numbered       *)
(* 1..n in the order of the static table; the rows of one stay are         *)
(* contiguous in the dynamic and in the outcome table; the dynamic table   *)
(* lists the stays in the order of the static table or in the reverse      *)
(* order, and the outcome table lists them in the order of the dynamic     *)
(* table.  A measurement may be missing (NaN) at the last timestep of the  *)
(* stays.                                                                  *)
(***************************************************************************)
NaN == 99      \* np.nan; no label and no measurement equals it

isnan(x) == x = NaN

RECURSIVE Flatten(_)
Flatten(ss) == IF ss = <<>> THEN <<>> ELSE Head(ss) \o Flatten(Tail(ss))

\* the orders in which a table lists the stays: that of the static table or its reverse
Orders(n) == {[j \in 1..n |-> j], [j \in 1..n |-> n + 1 - j]}

\* the labels of a stay of T timesteps with one label per timestep: 0 and 1 in
\* turn, and NaN at the positions the pattern names
NaNPatterns == {"none", "first", "last", "all"}
StepLabels(T, pattern) ==
    [t \in 1..T |->
        IF \/ pattern = "all"
           \/ pattern = "first" /\ t = 1
           \/ pattern = "last" /\ t = T
        THEN NaN ELSE t % 2]

StayLabels(T, per_step) ==
    IF per_step THEN {StepLabels(T, pattern) : pattern \in NaNPatterns}
    ELSE {<<l>> : l \in {0, 1, NaN}}

\* a stay: its number of timesteps and its labels, one per stay or one per timestep
Stays(per_step) ==
    UNION {[steps : {T}, labels : StayLabels(T, per_step)] : T \in 1..MaxSteps}

\* the tables data[split] of a split of n stays
StaticTable(n) == [j \in 1..n |-> [stay_id |-> j, static |-> <<100 + j>>]]
DynamicTable(n, stays, order, missing) ==
    Flatten([j \in 1..n |->
        [t \in 1..stays[order[j]].steps |->
            [stay_id |-> order[j], time |-> t,
             features |-> IF missing /\ t = stays[order[j]].steps
                          THEN <<NaN>> ELSE <<10 * order[j] + t>>]]])
OutcomeTable(n, stays, order) ==
    Flatten([j \in 1..n |->
        [t \in 1..Len(stays[order[j]].labels) |->
            [stay_id |-> order[j], label |-> stays[order[j]].labels[t]]]])

Split(n, stays, order, missing) ==
    [STATIC |-> StaticTable(n),
     DYNAMIC |-> DynamicTable(n, stays, order, missing),
     OUTCOME |-> OutcomeTable(n, stays, order)]

\* the rows of a table with the given group key, as .loc[stay_id:stay_id] slices them
RowsOf(df, stay_id) == SelectSeq(df, LAMBDA row : row.stay_id = stay_id)

GroupIds(df) == {df[j].stay_id : j \in 1..Len(df)}

Max(S) == CHOOSE m \in S : \A x \in S : x <= m

\* __init__, lines 21..33
RICUDataset(split, use_static) ==
    LET static_df == split.STATIC
        outc_df == split.OUTCOME
        \* set_index(GROUP).drop(labels=SEQUENCE, axis=1)
        dropped == [j \in 1..Len(split.DYNAMIC) |->
                       [stay_id |-> split.DYNAMIC[j].stay_id,
                        features |-> split.DYNAMIC[j].features]]
        \* join(static_df.set_index(GROUP)): the static columns are added to each row
        joined == [j \in 1..Len(dropped) |->
                      [stay_id |-> dropped[j].stay_id,
                       features |-> dropped[j].features
                                    \o Flatten([m \in 1..Len(RowsOf(static_df, dropped[j].stay_id)) |->
                                                   RowsOf(static_df, dropped[j].stay_id)[m].static])]]
        dyn_df == IF use_static THEN joined ELSE dropped
    IN  [static_df |-> static_df,
         outc_df |-> outc_df,
         dyn_df |-> dyn_df,
         num_stays |-> Len(static_df),
         num_measurements |-> Len(dyn_df),
         maxlen |-> Max({Len(RowsOf(dyn_df, g)) : g \in GroupIds(dyn_df)})]

InitData ==
    /\ \E n \in 1..MaxStays, per_step \in BOOLEAN, use_static \in BOOLEAN :
          \E stays \in [1..n -> Stays(per_step)], order \in Orders(n), missing \in BOOLEAN :
              self = RICUDataset(Split(n, stays, order, missing), use_static)
    /\ returned = NoResult
    /\ pc = "dataset"
    /\ scopes = <<>>
    /\ scope_i = 0
    /\ gin = [k \in Keys |-> Unbound]
    /\ call = NoCall
    /\ fixed = {}
    /\ hyperparams = <<>>
    /\ do_tune = FALSE
    /\ debug = FALSE
    /\ checkpoint = "none"
    /\ n_calls_arg = 1
    /\ n_calls = 1
    /\ n_initial_points = 1
    /\ x0 = <<>>
    /\ y0 = <<>>
    /\ restored = FALSE
    /\ res = [x_iters |-> <<>>, func_vals |-> <<>>]
    /\ remaining = 0
    /\ next_x = <<>>
    /\ log_file = NoFile
    /\ evals = 0
    /\ fold_calls = 0
    /\ fold_in_temp = <<>>
    /\ temp_dir = "none"
    /\ logging_disabled = FALSE
    /\ err = ""

tune_vars == <<scopes, scope_i, gin, call, fixed, hyperparams, do_tune, debug,
               checkpoint, n_calls_arg, n_calls, n_initial_points, x0, y0, restored,
               res, remaining, next_x, log_file, evals, fold_calls, fold_in_temp,
               temp_dir, logging_disabled, err>>

Repeat(x, n) == [j \in 1..n |-> x]

\* a variant that leaves the single label at the first timestep
AlignLabels_front(labels, steps) == labels \o Repeat(NaN, steps - 1)

\* line 63: the single label is moved to the last timestep of the window
AlignLabels(labels, steps) == Repeat(NaN, steps - 1) \o labels

\* a variant that pads one row less
LengthDiff_short(maxlen, steps) == maxlen - steps - 1

\* lines 65..74: the number of rows to append
LengthDiff(maxlen, steps) == maxlen - steps

\* a variant that also takes the label 0 for a missing label
Relabel_falsy(label) == IF isnan(label) \/ label = 0 THEN -1 ELSE label

\* lines 76..79 on one position
Relabel(label) == IF isnan(label) THEN -1 ELSE label

\* a variant that leaves the mask of an unlabeled position as it is
Remask_keep(label, mask) == mask

Remask(label, mask) == IF isnan(label) THEN 0 ELSE mask

\* __getitem__, lines 54..85
getitem(ds, idx) ==
    LET pad_value == 0
        stay_id == ds.static_df[idx + 1].stay_id
        rows == RowsOf(ds.dyn_df, stay_id)
        window == [j \in 1..Len(rows) |-> rows[j].features]
        outc == RowsOf(ds.outc_df, stay_id)
        labels0 == [j \in 1..Len(outc) |-> outc[j].label]
        labels1 == IF Len(labels0) = 1 THEN AlignLabels(labels0, Len(window)) ELSE labels0
        length_diff == LengthDiff(ds.maxlen, Len(window))
        pad_mask0 == Repeat(1, Len(window))
        padded == length_diff > 0
        window1 == IF padded
                   THEN window \o Repeat(Repeat(pad_value, Len(window[1])), length_diff)
                   ELSE window
        labels2 == IF padded THEN labels1 \o Repeat(pad_value, length_diff) ELSE labels1
        pad_mask1 == IF padded THEN pad_mask0 \o Repeat(0, length_diff) ELSE pad_mask0
        labels3 == [j \in 1..Len(labels2) |-> Relabel(labels2[j])]
        \* pad_mask[not_labeled] = 0 indexes the mask by the positions of the labels
        pad_mask2 == [j \in 1..Len(pad_mask1) |->
                         IF j <= Len(labels2) THEN Remask(labels2[j], pad_mask1[j])
                         ELSE pad_mask1[j]]
    IN  [data |-> window1,
         labels |-> labels3,
         \* astype(bool)
         pad_mask |-> [j \in 1..Len(pad_mask2) |-> pad_mask2[j] # 0]]

GetItem ==
    /\ pc = "dataset"
    /\ \E idx \in 0..(self.num_stays - 1) :
          returned' = [op |-> "getitem", idx |-> idx, value |-> getitem(self, idx)]
    /\ UNCHANGED <<pc, self>>
    /\ UNCHANGED tune_vars

\* groupby(level=GROUP, sort=False): the group keys in the order of their first rows
RECURSIVE GroupKeysFrom(_, _)
GroupKeysFrom(df, seen) ==
    IF df = <<>> THEN <<>>
    ELSE IF Head(df).stay_id \in seen THEN GroupKeysFrom(Tail(df), seen)
    ELSE <<Head(df).stay_id>> \o GroupKeysFrom(Tail(df), seen \cup {Head(df).stay_id})

GroupKeys(df) == GroupKeysFrom(df, {})

\* GroupBy.last() on one column of one group: the last value that is not NaN,
\* NaN when the group has none
LastValid(values) ==
    LET valid == SelectSeq(values, LAMBDA v : ~isnan(v))
    IN  IF valid = <<>> THEN NaN ELSE valid[Len(valid)]

\* line 108: one row per group, the groups in the order of GroupKeys
groupby_last(df) ==
    LET keys == GroupKeys(df)
    IN  [i \in 1..Len(keys) |->
            LET rows == RowsOf(df, keys[i])
            IN  [stay_id |-> keys[i],
                 features |-> [c \in 1..Len(rows[1].features) |->
                                  LastValid([t \in 1..Len(rows) |-> rows[t].features[c]])]]]

\* a variant that compares the number of labels with the number of measurements
OneLabelPerStay_measurements(labels, ds) == Len(labels) = ds.num_measurements

\* line 106
OneLabelPerStay(labels, ds) == Len(labels) = ds.num_stays

\* get_data_and_labels, lines 104..111
get_data_and_labels(ds) ==
    LET labels == [j \in 1..Len(ds.outc_df) |-> ds.outc_df[j].label]
        rep0 == ds.dyn_df
        rep1 == IF OneLabelPerStay(labels, ds) THEN groupby_last(rep0) ELSE rep0
    IN  [rep |-> [j \in 1..Len(rep1) |-> rep1[j].features], labels |-> labels]

GetDataAndLabels ==
    /\ pc = "dataset"
    /\ returned' = [op |-> "get_data_and_labels", idx |-> 0, value |-> get_data_and_labels(self)]
    /\ UNCHANGED <<pc, self>>
    /\ UNCHANGED tune_vars

\* a float, kept as the quotient num / den of two integers
Quotient(num, den) == [num |-> num, den |-> den]
Times(q, m) == Quotient(q.num * m, q.den)
DividedBy(q, m) == Quotient(q.num, q.den * m)

\* the values value_counts() counts: NaN is dropped
CountedValues(ds) == {ds.outc_df[j].label : j \in 1..Len(ds.outc_df)} \ {NaN}
CountOf(ds, v) == Cardinality({j \in 1..Len(ds.outc_df) : ds.outc_df[j].label = v})

\* line 93, value_counts(): the index of the counts, the most frequent value
\* first; the order of values of equal count is not determined
ValueCountsOrders(ds) ==
    LET values == CountedValues(ds)
        k == Cardinality(values)
    IN  {o \in [1..k -> values] :
            /\ \A i, j \in 1..k : i # j => o[i] # o[j]
            /\ \A i, j \in 1..k : i < j => CountOf(ds, o[i]) >= CountOf(ds, o[j])}

RECURSIVE Sum(_)
Sum(xs) == IF xs = <<>> THEN 0 ELSE Head(xs) + Sum(Tail(xs))

\* get_balance, lines 93..94, for the order value_counts() produced
get_balance(ds, order) ==
    LET counts == [i \in 1..Len(order) |-> CountOf(ds, order[i])]
    IN  [i \in 1..Len(counts) |->
            DividedBy(Times(Quotient(1, counts[i]), Sum(counts)), Len(counts))]

GetBalance ==
    /\ pc = "dataset"
    /\ \E order \in ValueCountsOrders(self) :
          returned' = [op |-> "get_balance", idx |-> 0, value |-> get_balance(self, order)]
    /\ UNCHANGED <<pc, self>>
    /\ UNCHANGED tune_vars

NextData == GetItem \/ GetDataAndLabels \/ GetBalance

SpecData == InitData /\ [][NextData]_vars

(***************************************************************************)
(* Properties of choose_and_bind_hyperparameters (Spec).                   *)
(***************************************************************************)
Terminated == pc \in {"done", "raised"}

\* objective evaluations that returned a loss
Completed == evals - (IF err = "TrainingError" THEN 1 ELSE 0)

\* the binding bind_params makes of the vector x
BoundTo(x) ==
    \A j \in 1..Len(hyperparams) : gin[hyperparams[j].name] = Scalar(x[j])

\* C1: a call that resumes with tuning enabled from a checkpoint of k points,
\* k < n_calls, and whose evaluations all return, ends normally after exactly
\* n_calls - k evaluations, each with one invocation of the fold orchestrator.
C1_ResumeRunsRemainingBudget ==
    (/\ Terminated
     /\ do_tune
     /\ restored
     /\ Len(x0) < n_calls_arg
     /\ err # "TrainingError")
    => (/\ pc = "done"
        /\ evals = n_calls_arg - Len(x0)
        /\ fold_calls = evals)

\* C2: with a checkpoint of k >= n_calls points nothing is evaluated, the call
\* returns normally, and every tunable name is bound to its value in a recorded
\* vector of minimal recorded loss.
C2_ExhaustedBudgetBindsBest ==
    (checkpoint = "exists" /\ (restored => Len(x0) >= n_calls_arg))
    => (/\ evals = 0
        /\ fold_calls = 0
        /\ err = ""
        /\ pc # "raised"
        /\ ~log_file.exists
        /\ restored =>
              /\ pc = "done"
              /\ \E m \in 1..Len(y0) :
                    /\ \A q \in 1..Len(y0) : y0[m] <= y0[q]
                    /\ BoundTo(x0[m]))

C2_Witness ==
    /\ pc = "done"
    /\ restored
    /\ Len(x0) >= n_calls_arg
    /\ Len(x0) >= 2
    /\ y0[1] > y0[2]
    /\ x0[1] # x0[2]
    /\ hyperparams # <<>>

\* C3: with do_tune = False and an empty collected search space the call returns
\* right after the collection: it never reaches the checkpoint step or the
\* optimizer and never invokes the fold orchestrator.
C3_NoTuneEmptySpaceReturns ==
    (~do_tune /\ scope_i = Len(scopes) /\ hyperparams = <<>>)
    => (/\ pc \in {"collect", "done"}
        /\ evals = 0
        /\ fold_calls = 0)

IsPrefix(a, b) == Len(a) <= Len(b) /\ SubSeq(b, 1, Len(a)) = a

\* the checkpoint file holds the restored points followed by one entry per
\* completed evaluation, the last of them the point evaluated last
FileHoldsHistory ==
    /\ log_file.exists
    /\ Len(log_file.x_iters) = Len(x0) + Completed
    /\ Len(log_file.func_vals) = Len(x0) + Completed
    /\ IsPrefix(x0, log_file.x_iters)
    /\ IsPrefix(y0, log_file.func_vals)
    /\ (Completed >= 1 /\ err = "" => log_file.x_iters[Len(log_file.x_iters)] = next_x)

\* C5 as stated: after every objective evaluation of the search loop the
\* checkpoint file in the log directory holds the full accumulated history.
\* (stated here for the non-empty search spaces only)
C5_FileAfterEveryEvaluation == (Completed >= 1 /\ hyperparams # <<>>) => FileHoldsHistory

\* C5 amended: with tuning enabled, after every objective evaluation the
\* checkpoint file holds the full accumulated history (index-aligned, restored
\* points first), and an overwrite keeps every entry written before it.
C5_FileAfterEveryTunedEvaluation ==
    [][do_tune =>
          /\ (Completed' >= 1 => FileHoldsHistory')
          /\ (log_file.exists =>
                 /\ log_file'.exists
                 /\ IsPrefix(log_file.x_iters, log_file'.x_iters)
                 /\ IsPrefix(log_file.func_vals, log_file'.func_vals))]_vars

C5_Witness ==
    /\ do_tune
    /\ restored
    /\ Completed >= 2
    /\ log_file.exists
    /\ Len(log_file.x_iters) = Len(x0) + 2

(***************************************************************************)
(* Properties of RICUDataset.__getitem__ (SpecData).                       *)
(***************************************************************************)
\* the tables of the split, read without the accessors modelled above
DynIndexes(stay_id) == {j \in 1..Len(self.dyn_df) : self.dyn_df[j].stay_id = stay_id}
OutcIndexes(stay_id) == {j \in 1..Len(self.outc_df) : self.outc_df[j].stay_id = stay_id}
\* the t-th row of a stay in a table: the index with t - 1 rows of the stay before it
NthIndex(indexes, t) == CHOOSE j \in indexes : Cardinality({m \in indexes : m < j}) = t - 1
StepsOf(stay_id) == Cardinality(DynIndexes(stay_id))
LongestStay ==
    CHOOSE m \in {StepsOf(self.static_df[j].stay_id) : j \in 1..Len(self.static_df)} :
        \A j \in 1..Len(self.static_df) : StepsOf(self.static_df[j].stay_id) <= m
FeatureCount == Len(self.dyn_df[1].features)

\* the stay of the last __getitem__ call and what the tables hold for it
ItemStay == self.static_df[returned.idx + 1].stay_id
ItemSteps == StepsOf(ItemStay)
ItemLabelCount == Cardinality(OutcIndexes(ItemStay))
ItemRow(t) == self.dyn_df[NthIndex(DynIndexes(ItemStay), t)].features
ItemOutcome(t) == self.outc_df[NthIndex(OutcIndexes(ItemStay), t)].label
\* the label of timestep t before the sample rewrites it
ItemLabel(t) ==
    IF ItemLabelCount = 1
    THEN (IF t = ItemSteps THEN ItemOutcome(1) ELSE NaN)
    ELSE ItemOutcome(t)

\* C6: every sample has data of shape [maxlen, F], labels and mask of length
\* maxlen, maxlen being the largest number of timesteps of a stay of the split;
\* the pad length is never negative and the stay's rows are all kept, in order.
C6_SampleShape ==
    returned.op = "getitem"
    => LET v == returned.value
       IN  /\ Len(v.data) = LongestStay
           /\ \A j \in 1..Len(v.data) : Len(v.data[j]) = FeatureCount
           /\ Len(v.labels) = LongestStay
           /\ Len(v.pad_mask) = LongestStay
           /\ LongestStay - ItemSteps >= 0
           /\ \A t \in 1..ItemSteps : v.data[t] = ItemRow(t)

C6_Witness ==
    /\ returned.op = "getitem"
    /\ ItemSteps >= 2
    /\ ItemSteps < LongestStay
    /\ returned.idx >= 1
    /\ FeatureCount = 2

\* the labels and the mask of a stay with one label and T > 1 timesteps: -1 and
\* false before the last timestep, the label and true at it, false in the padding
SingleLabelAtLastStep ==
    LET v == returned.value
    IN  /\ \A t \in 1..(ItemSteps - 1) : v.labels[t] = -1 /\ ~v.pad_mask[t]
        /\ v.labels[ItemSteps] = ItemOutcome(1)
        /\ v.pad_mask[ItemSteps]
        /\ \A t \in (ItemSteps + 1)..Len(v.pad_mask) : ~v.pad_mask[t]

\* C7 as stated: for a stay with exactly one outcome label and T > 1 timesteps.
C7_SingleLabel ==
    (returned.op = "getitem" /\ ItemLabelCount = 1 /\ ItemSteps > 1)
    => SingleLabelAtLastStep

\* C7 amended: for a stay with exactly one outcome label that is not NaN and
\* T > 1 timesteps.
C7_SingleLabelNotNaN ==
    (returned.op = "getitem" /\ ItemLabelCount = 1 /\ ItemSteps > 1 /\ ItemOutcome(1) # NaN)
    => SingleLabelAtLastStep

C7_Witness ==
    /\ returned.op = "getitem"
    /\ ItemLabelCount = 1
    /\ ItemSteps > 1
    /\ ItemSteps < LongestStay
    /\ ItemOutcome(1) = 1

\* C8: no label of a sample is NaN; a position whose label was NaN holds -1 and
\* is masked out; the mask is true exactly at the timesteps of the stay whose
\* label was not NaN; a padding position has zero features, label 0, mask false.
C8_UnlabeledAndPadding ==
    returned.op = "getitem"
    => LET v == returned.value
       IN  \A t \in 1..Len(v.labels) :
              /\ v.labels[t] # NaN
              /\ (t <= ItemSteps /\ ItemLabel(t) = NaN) => (v.labels[t] = -1 /\ ~v.pad_mask[t])
              /\ v.pad_mask[t] <=> (t <= ItemSteps /\ ItemLabel(t) # NaN)
              /\ t > ItemSteps =>
                    /\ \A c \in 1..Len(v.data[t]) : v.data[t][c] = 0
                    /\ v.labels[t] = 0
                    /\ ~v.pad_mask[t]

C8_Witness ==
    /\ returned.op = "getitem"
    /\ ItemLabelCount >= 2
    /\ ItemSteps < LongestStay
    /\ ItemOutcome(1) # NaN
    /\ ItemOutcome(ItemSteps) = NaN
    /\ returned.value.labels[ItemSteps] = -1

(***************************************************************************)
(* Properties of hyperparameters_to_tune (SpecCollect).                    *)
(***************************************************************************)
\* the candidates of the last call, by qualified name
CallName(j) == call.class_to_tune \o <<".", call.hyperparams[j].param>>
CallValues(j) == call.hyperparams[j].values
IsRange(values) == values.form = "tuple" \/ values.form = "list"
Returned(name, values) ==
    \E m \in 1..Len(call.ret) : call.ret[m].name = name /\ call.ret[m].values = values
InReturned(name) == \E m \in 1..Len(call.ret) : call.ret[m].name = name

\* a candidate is handled by its form: a list or tuple is returned unchanged and
\* not bound, a scalar is bound and not returned
HandledByForm(j) ==
    IF IsRange(CallValues(j))
    THEN Returned(CallName(j), CallValues(j)) /\ gin[CallName(j)] = call.before[CallName(j)]
    ELSE gin[CallName(j)] = CallValues(j) /\ ~InReturned(CallName(j))

\* C9: when none of the candidates is already bound, the call partitions them by
\* value form: the lists and tuples, and only they, make up the returned search
\* space, and the scalars are bound.
C9_PartitionByForm ==
    (/\ call # NoCall
     /\ \A j \in 1..Len(call.hyperparams) : call.before[CallName(j)] = Unbound)
    => /\ \A j \in 1..Len(call.hyperparams) : HandledByForm(j)
       /\ \A m \in 1..Len(call.ret) :
             \E j \in 1..Len(call.hyperparams) :
                 CallName(j) = call.ret[m].name /\ IsRange(CallValues(j))

\* C10: a candidate whose qualified name is already bound is skipped whatever
\* its form (not returned, binding unchanged); a candidate whose qualified name
\* is not bound is never skipped.
C10_SkippedIffBound ==
    call # NoCall
    => \A j \in 1..Len(call.hyperparams) :
          IF call.before[CallName(j)] # Unbound
          THEN ~InReturned(CallName(j)) /\ gin[CallName(j)] = call.before[CallName(j)]
          ELSE HandledByForm(j)

(***************************************************************************)
(* Properties of get_data_and_labels and get_balance (SpecData).           *)
(***************************************************************************)
StayIds == {self.static_df[j].stay_id : j \in 1..Len(self.static_df)}
OneLabelPerEntity == \A g \in StayIds : Cardinality(OutcIndexes(g)) = 1
FullTable == [j \in 1..Len(self.dyn_df) |-> self.dyn_df[j].features]
FirstIndex(g) == NthIndex(DynIndexes(g), 1)
\* the i-th stay in the order in which the dynamic table first lists the stays
EntityOfRow(i) ==
    CHOOSE g \in StayIds : Cardinality({h \in StayIds : FirstIndex(h) < FirstIndex(g)}) = i - 1
LastRow(g) == self.dyn_df[NthIndex(DynIndexes(g), StepsOf(g))].features
LabelOf(g) == self.outc_df[NthIndex(OutcIndexes(g), 1)].label

\* C11: the feature matrix of get_data_and_labels has as many rows as there are
\* labels: with one label per stay it has one row per stay (num_stays rows),
\* otherwise it is the whole dynamic table (num_measurements rows).
C11_RowCountEqualsLabelCount ==
    returned.op = "get_data_and_labels"
    => /\ Len(returned.value.labels) = Len(self.outc_df)
       /\ Len(returned.value.rep) = Len(returned.value.labels)
       /\ IF OneLabelPerEntity
          THEN Len(returned.value.rep) = self.num_stays
          ELSE /\ returned.value.rep = FullTable
               /\ Len(returned.value.rep) = self.num_measurements

\* a table of one label per stay with more measurements than stays was collapsed
C11_Witness ==
    /\ returned.op = "get_data_and_labels"
    /\ OneLabelPerEntity
    /\ self.num_stays = 2
    /\ self.num_measurements > self.num_stays
    /\ Len(returned.value.rep) = 2

\* C12: with one label per stay, row i of the features is the last row the
\* dynamic table holds for a stay, every column taken from that row, the stays
\* come in the order in which the dynamic table lists them, and label i is the
\* label of the stay of row i.
C12_LastRowPerEntity ==
    (returned.op = "get_data_and_labels" /\ OneLabelPerEntity)
    => \A i \in 1..Len(returned.value.rep) :
          /\ returned.value.rep[i] = LastRow(EntityOfRow(i))
          /\ returned.value.labels[i] = LabelOf(EntityOfRow(i))

\* the label values of the outcome table in ascending order, NaN (unlabeled) left out
DistinctLabels == {self.outc_df[j].label : j \in 1..Len(self.outc_df)} \ {NaN}
LabelCount(v) == Cardinality({j \in 1..Len(self.outc_df) : self.outc_df[j].label = v})
TotalLabelCount == Cardinality({j \in 1..Len(self.outc_df) : self.outc_df[j].label # NaN})
NthLabel(i) == CHOOSE v \in DistinctLabels : Cardinality({u \in DistinctLabels : u < v}) = i - 1
\* the quotient q is the weight of label value v
IsWeightOf(q, v) ==
    LabelCount(v) * q.num * Cardinality(DistinctLabels) = TotalLabelCount * q.den

\* C13: get_balance returns one weight per distinct label value, the weight of
\* v being (number of labels / count of v) / number of distinct values, and the
\* weights come in the order of the label values: for the binary labels 0 and
\* 1 with counts (a, b) they are ((a+b)/a / 2, (a+b)/b / 2).
C13_WeightPerLabel ==
    returned.op = "get_balance"
    => /\ Len(returned.value) = Cardinality(DistinctLabels)
       /\ \A i \in 1..Len(returned.value) : IsWeightOf(returned.value[i], NthLabel(i))

\* C14: a stay with one label per timestep, none of them NaN, keeps its T labels
\* at the positions 0..T-1 of the sample, and the mask is true at exactly these
\* positions; T = 1 and T = maxlen are included.
C14_FullLabelsKept ==
    (/\ returned.op = "getitem"
     /\ ItemLabelCount = ItemSteps
     /\ \A t \in 1..ItemSteps : ~isnan(ItemOutcome(t)))
    => /\ Len(returned.value.labels) = LongestStay
       /\ Len(returned.value.pad_mask) = LongestStay
       /\ \A t \in 1..ItemSteps :
             /\ returned.value.labels[t] = ItemOutcome(t)
             /\ returned.value.pad_mask[t] = TRUE
       /\ \A t \in (ItemSteps + 1)..LongestStay : returned.value.pad_mask[t] = FALSE

\* a stay of two labelled timesteps in a split whose longest stay has three
C14_Witness ==
    /\ returned.op = "getitem"
    /\ ItemLabelCount = 2
    /\ ItemSteps = 2
    /\ \A t \in 1..2 : ~isnan(ItemOutcome(t))
    /\ LongestStay = 3
    /\ returned.value.pad_mask = <<TRUE, TRUE, FALSE>>

(***************************************************************************)
(* Properties of the search loop of choose_and_bind_hyperparameters (Spec) *)
(* and of the collection step (SpecCollect).                               *)
(***************************************************************************)
\* the i-th recorded point is res.x: no recorded value is smaller than its own
\* and no earlier one is as small
IsResX(i) ==
    /\ \A j \in 1..Len(res.func_vals) : res.func_vals[i] <= res.func_vals[j]
    /\ \A j \in 1..(i - 1) : res.func_vals[j] > res.func_vals[i]

\* C15: while the search runs the tunable names are bound to the candidate
\* evaluated last, and when the call returns after the search they are bound
\* to res.x: the bind of res.x is the last bind of every tunable name.
C15_LastBindIsBest ==
    /\ (pc = "ask" /\ evals >= 1) => BoundTo(next_x)
    /\ (pc = "done" /\ evals >= 1)
       => /\ Len(res.x_iters) = Len(x0) + evals
          /\ \E i \in 1..Len(res.x_iters) : IsResX(i) /\ BoundTo(res.x_iters[i])

\* the call returned after two evaluations with another point bound than the
\* one evaluated last
C15_Witness ==
    /\ pc = "done"
    /\ evals = 2
    /\ ~BoundTo(next_x)
    /\ \E i \in 1..Len(res.x_iters) : IsResX(i) /\ BoundTo(res.x_iters[i])

\* C16: every invocation of the fold orchestrator happens while the temporary
\* directory it gets as output directory exists, and the directory does not
\* exist any more once the call has returned.
C16_FoldRunsInTempDir ==
    /\ \A i \in 1..Len(fold_in_temp) : fold_in_temp[i]
    /\ pc = "done" => temp_dir # "exists"

\* C17: without tuning and with a search space that is not empty, a call that
\* returns has evaluated the objective exactly once, with the value 0 and
\* without an invocation of the fold orchestrator, whatever budget was passed
\* or left by a checkpoint, and the point drawn is the one bound on return.
C17_NoTuneSingleDraw ==
    (~do_tune /\ hyperparams # <<>> /\ pc = "done")
    => /\ evals = 1
       /\ fold_calls = 0
       /\ res.func_vals[Len(res.func_vals)] = 0
       /\ BoundTo(next_x)

\* C17, amended: without tuning and with a search space that is not empty, a
\* call that returns after its search has evaluated the objective exactly once,
\* with the value 0 and without the fold orchestrator, whatever budget was
\* passed; the names are bound to res.x, which is the point drawn unless a
\* restored point has a recorded value of 0 or less.  A call whose checkpoint
\* used up the budget returns without an evaluation, the best restored point
\* bound.
C17_NoTuneSingleDrawAfterSearch ==
    (~do_tune /\ hyperparams # <<>> /\ pc = "done")
    => IF temp_dir = "removed"
       THEN /\ evals = 1
            /\ fold_calls = 0
            /\ n_calls = 1
            /\ n_initial_points = 1
            /\ Len(res.x_iters) = Len(x0) + 1
            /\ res.x_iters[Len(res.x_iters)] = next_x
            /\ res.func_vals[Len(res.func_vals)] = 0
            /\ ((\A j \in 1..Len(y0) : y0[j] > 0) => BoundTo(next_x))
            /\ \E i \in 1..Len(res.x_iters) : IsResX(i) /\ BoundTo(res.x_iters[i])
       ELSE /\ evals = 0
            /\ restored
            /\ Len(x0) >= n_calls_arg
            /\ \E i \in 1..Len(y0) :
                  /\ BoundTo(x0[i])
                  /\ \A j \in 1..Len(y0) : y0[i] <= y0[j]

\* a call without tuning that was given a budget of two and resumed from one
\* point of positive value returned after one evaluation, the drawn point bound
C17_Witness ==
    /\ ~do_tune
    /\ hyperparams # <<>>
    /\ pc = "done"
    /\ n_calls_arg >= 2
    /\ restored
    /\ y0 = <<1>>
    /\ evals = 1
    /\ x0[1] # next_x
    /\ BoundTo(next_x)

\* C18: when an invocation of the fold orchestrator fails the call ends with
\* that failure: the failed evaluation is the last one, the tunable names stay
\* bound to the candidate that failed (res.x is not bound), and the checkpoint
\* file holds exactly the restored points followed by the evaluations completed
\* before the failure (no file when there is none of either).
C18_FailurePropagates ==
    err = "TrainingError"
    => /\ pc = "raised"
       /\ do_tune
       /\ fold_calls = evals
       /\ Len(fold_in_temp) = evals
       /\ BoundTo(next_x)
       /\ Len(res.x_iters) = Len(x0) + evals - 1
       /\ IsPrefix(x0, res.x_iters)
       /\ IsPrefix(y0, res.func_vals)
       /\ log_file.x_iters = res.x_iters
       /\ log_file.func_vals = res.func_vals
       /\ log_file.exists <=> (restored \/ evals >= 2)

\* the second evaluation after a restored point failed, and the candidate that
\* failed is not the best recorded point
C18_Witness ==
    /\ err = "TrainingError"
    /\ pc = "raised"
    /\ restored
    /\ evals = 2
    /\ Len(log_file.x_iters) = Len(x0) + 1
    /\ \A i \in 1..Len(res.x_iters) : IsResX(i) => res.x_iters[i] # next_x

\* C19: when a call that has evaluated the objective ends, by return or by a
\* raised error, INFO logging is not left disabled; during the search it is
\* disabled exactly when debug is false.
C19_LoggingRestored ==
    /\ (pc = "ask") => (logging_disabled <=> ~debug)
    /\ (Terminated /\ evals >= 1) => ~logging_disabled

\* scope i declares the name with a value of the given kind
Declares(i, name, range) ==
    \E j \in 1..Len(scopes[i].hyperparams) :
        /\ QualifiedName(scopes[i].class_to_tune, scopes[i].hyperparams[j].param) = name
        /\ IsRange(scopes[i].hyperparams[j].values) = range
DeclaredBounds(i, name) ==
    LET j == CHOOSE j \in 1..Len(scopes[i].hyperparams) :
                 QualifiedName(scopes[i].class_to_tune, scopes[i].hyperparams[j].param) = name
    IN  scopes[i].hyperparams[j].values
CollectionDone == pc = "collect" /\ scope_i = Len(scopes)

\* C20: after the collection over the scopes, no name is both bound as a fixed
\* value by the collection and in the merged search space, in whatever order
\* the scopes declare it; and a name of the search space has the bounds of
\* the latest scope that declares it as a range.
C20_FixedAndTunableDisjoint ==
    CollectionDone
    => /\ fixed \cap DictKeys(hyperparams) = {}
       /\ \A name \in DictKeys(hyperparams) :
             \E i \in 1..Len(scopes) :
                 /\ Declares(i, name, TRUE)
                 /\ \A m \in (i + 1)..Len(scopes) : ~Declares(m, name, TRUE)
                 /\ hyperparams[DictGet(hyperparams, name)].values = DeclaredBounds(i, name)

\* C20, amended: a name is both bound as a fixed value by the collection and in
\* the merged search space only when an earlier scope declares it as a range
\* and a later scope as a scalar (a scalar declared first keeps a later range
\* out of the search space); and the bounds a scope returns for a name replace
\* the bounds earlier scopes returned for it.
C20_OverlapOnlyRangeThenScalar ==
    /\ \A name \in fixed \cap DictKeys(hyperparams) :
          \E i, j \in 1..scope_i :
              i < j /\ Declares(i, name, TRUE) /\ Declares(j, name, FALSE)
    /\ \A i, j \in 1..scope_i, name \in fixed :
          (/\ i < j
           /\ Declares(i, name, FALSE)
           /\ Declares(j, name, TRUE)
           /\ \A m \in 1..scope_i : m # i /\ m # j => ~Declares(m, name, TRUE))
          => name \notin DictKeys(hyperparams)
    /\ call # NoCall
       => \A m \in 1..Len(call.ret) :
             /\ call.ret[m].name \in DictKeys(hyperparams)
             /\ hyperparams[DictGet(hyperparams, call.ret[m].name)].values = call.ret[m].values

\* two scopes declared the same name, the first as a tuple and the second as a
\* list, and the list is what the search space holds
C20_Witness ==
    /\ CollectionDone
    /\ scope_i = 2
    /\ Declares(1, QualifiedName(Net, "a"), TRUE)
    /\ Declares(2, QualifiedName(Net, "a"), TRUE)
    /\ DeclaredBounds(1, QualifiedName(Net, "a")) # DeclaredBounds(2, QualifiedName(Net, "a"))
    /\ QualifiedName(Net, "a") \in DictKeys(hyperparams)
    /\ hyperparams[DictGet(hyperparams, QualifiedName(Net, "a"))].values
          = DeclaredBounds(2, QualifiedName(Net, "a"))

====
